---- MODULE Spec2Model ----
(***************************************************************************)
(* Model of process.py: the tile matching engine (Tileset.search and its   *)
(* scorer) and the parallel dispatcher (BaseLoader.search).                *)
(*                                                                         *)
(* Images are records [w, h, ch, px] with px a function from 0-based       *)
(* <<x, y>> coordinates to pixels; a pixel is a tuple of ch channel        *)
(* values.  Scores and confidences are kept as exact fractions <<n, d>>:   *)
(* the code divides two small integers in double precision, and for        *)
(* denominators far below 2^50 the comparison of that quotient with the    *)
(* threshold agrees with the comparison of the exact fractions.            *)
(***************************************************************************)
EXTENDS Integers, Sequences, FiniteSets, TLC

----------------------------------------------------------------------------
(* Bounds of the model *)

\* the grid step (the code's default is 16; scaled down)
TILE_SIZE == 2
MaxSW == 3
MaxSH == 2
MaxTW == 4
MaxTH == 2

\* SIMILARITY = 0.9, as the fraction 9/10
SIMILARITY == <<9, 10>>

Thresholds == {<<0, 1>>, <<1, 2>>, SIMILARITY}

----------------------------------------------------------------------------
(* Pixels and images *)

Transparent == <<0, 0, 0, 0>>
OpaqueA == <<10, 20, 30, 255>>
OpaqueB == <<10, 20, 31, 255>>
SemiA == <<10, 20, 30, 128>>

Max(a, b) == IF a >= b THEN a ELSE b
Min(a, b) == IF a <= b THEN a ELSE b

Coords(w, h) == (0 .. (w - 1)) \X (0 .. (h - 1))

Image(w, h, f) == [w |-> w, h |-> h, ch |-> 4, px |-> f]

\* numpy basic slicing img[y0:y1, x0:x1] with non-negative bounds: the upper
\* bounds are clamped to the array, an empty range gives an empty axis
Slice(img, y0, y1, x0, x1) ==
    LET cx0 == Min(x0, img.w)
        cy0 == Min(y0, img.h)
        sw == Max(0, Min(x1, img.w) - cx0)
        sh == Max(0, Min(y1, img.h) - cy0)
    IN [w |-> sw, h |-> sh, ch |-> img.ch,
        px |-> [p \in Coords(sw, sh) |-> img.px[<<cx0 + p[1], cy0 + p[2]>>]]]

\* np.count_nonzero(img[:, :, 3] == 255); indexing channel 3 of an image
\* without an alpha channel raises IndexError: modelled by -1
CountOpaque(img) ==
    IF img.ch < 4 THEN -1
    ELSE Cardinality({p \in Coords(img.w, img.h) : img.px[p][4] = 255})

----------------------------------------------------------------------------
(* Scorer *)

ScoreError == <<-1, 1>>

\* numpy broadcasting of two axes lengths
Compatible(m, n) == m = n \/ m = 1 \/ n = 1

\* element of a broadcast array
At(img, p) ==
    img.px[<<IF img.w = 1 THEN 0 ELSE p[1], IF img.h = 1 THEN 0 ELSE p[2]>>]

\* the scorer without its guard against an empty mask: the division faults
compute_score_unguarded(a, b, denominator) ==
    IF denominator = 0 THEN ScoreError
    ELSE <<Cardinality({p \in Coords(Min(a.w, b.w), Min(a.h, b.h)) :
              a.px[p] = b.px[p] /\ a.px[p][4] = 255}), denominator>>

\* the scorer dividing by the opaque pixels of the window it is given
compute_score_window(a, b, denominator) ==
    IF CountOpaque(a) = 0 THEN <<0, 1>>
    ELSE <<Cardinality({p \in Coords(Min(a.w, b.w), Min(a.h, b.h)) :
              a.px[p] = b.px[p] /\ a.px[p][4] = 255}), CountOpaque(a)>>

\* Tileset.__compute_score(a, b, denominator): fraction <<agree, denominator>>
compute_score(a, b, denominator) ==
    IF denominator = 0 THEN <<0, 1>>
    ELSE IF ~(Compatible(a.w, b.w) /\ Compatible(a.h, b.h)) \/ a.ch # b.ch
              \/ a.ch < 4
         THEN ScoreError
    ELSE LET bw == Max(a.w, b.w)
             bh == Max(a.h, b.h)
             comp(p) == \A c \in 1 .. a.ch : At(a, p)[c] = At(b, p)[c]
             mask(p) == At(a, p)[4] = 255
         IN <<Cardinality({p \in Coords(bw, bh) : comp(p) /\ mask(p)}),
              denominator>>

\* Tileset._compute_score(a, b): the debugging entry point
debug_compute_score(a, b) ==
    IF a.ch < 4 THEN ScoreError
    ELSE compute_score(a, b, CountOpaque(a))

----------------------------------------------------------------------------
(* Fractions *)

RECURSIVE Gcd(_, _)
Gcd(a, b) == IF b = 0 THEN a ELSE Gcd(b, a % b)

Reduce(q) == LET g == Gcd(q[1], q[2]) IN
    IF g = 0 THEN q ELSE <<q[1] \div g, q[2] \div g>>

\* score > threshold
Greater(score, thr) == score[1] * thr[2] > thr[1] * score[2]

\* (score - threshold) / (1 - threshold)
Confidence(score, thr) ==
    Reduce(<<score[1] * thr[2] - thr[1] * score[2],
             score[2] * (thr[2] - thr[1])>>)

----------------------------------------------------------------------------
(* Window Enumerator and Match Search *)

\* range(start, stop, step) for step > 0, as a sequence
Range(start, stop, step) ==
    LET n == IF stop > start THEN (stop - start + step - 1) \div step ELSE 0
    IN [k \in 1 .. n |-> start + (k - 1) * step]

\* the single-side bounds without the clipping at the tileset's right edge
SingleXBoundsUnclipped(i, sw, tw) == <<Max(0, -i), sw>>

\* the single-side horizontal bounds sx0, sx1 of the window at column i
SingleXBounds(i, sw, tw) == <<Max(0, -i), Min(sw, tw - i)>>

\* the first origin of the grid on one axis
GridStart(size, extent) == size - extent

\* one iteration of the loop body of Tileset.search, up to the score
Window(tileset, single, j, i, opaque) ==
    LET th == tileset.h
        tw == tileset.w
        sh == single.h
        sw == single.w
        ty0 == Max(0, j)
        ty1 == Min(th, j + sh)
        tx0 == Max(0, i)
        tx1 == Min(tw, i + sw)
        t == Slice(tileset, ty0, ty1, tx0, tx1)
        sy0 == Max(0, -j)
        sy1 == Min(sh, th - j)
        sx == SingleXBounds(i, sw, tw)
        s == Slice(single, sy0, sy1, sx[1], sx[2])
    IN [j |-> j, i |-> i, t |-> t, s |-> s,
        score |-> compute_score(s, t, opaque),
        t_region |-> <<tx0, ty0, tx1 - tx0, ty1 - ty0>>,
        s_region |-> <<sx[1], sy0, sx[2] - sx[1], sy1 - sy0>>]

\* the windows Tileset.search tests, in the order of its two loops
Windows(tileset, single, size) ==
    LET js == Range(GridStart(size, single.h), tileset.h, size)
        is == Range(GridStart(size, single.w), tileset.w, size)
        n == Len(is)
        opaque == CountOpaque(single)
    IN [k \in 1 .. (Len(js) * n) |->
           Window(tileset, single, js[((k - 1) \div n) + 1],
                  is[((k - 1) % n) + 1], opaque)]

\* the acceptance test with an inclusive comparison
AcceptsInclusive(score, threshold) ==
    score[1] * threshold[2] >= threshold[1] * score[2]

\* the acceptance test of one window
Accepts(score, threshold) == Greater(score, threshold)

RECURSIVE Emit(_, _)
Emit(wins, threshold) ==
    IF wins = <<>> THEN <<>>
    ELSE LET win == Head(wins)
             rest == Emit(Tail(wins), threshold)
         IN IF Accepts(win.score, threshold)
            THEN <<<<win.t_region, win.s_region,
                     Confidence(win.score, threshold)>>>> \o rest
            ELSE rest

\* list(Tileset.search(single, threshold, size)): ok is FALSE when the
\* generator raises
Search(tileset, single, threshold, size) ==
    IF single.ch < 4 THEN [ok |-> FALSE, tiles |-> <<>>]
    ELSE LET wins == Windows(tileset, single, size) IN
         IF \E k \in 1 .. Len(wins) : wins[k].score = ScoreError
         THEN [ok |-> FALSE, tiles |-> <<>>]
         ELSE [ok |-> TRUE, tiles |-> Emit(wins, threshold)]

----------------------------------------------------------------------------
(* Inputs of the matching engine *)

PixelValues == {Transparent, OpaqueA, OpaqueB, SemiA}

\* a single: one fill value, optionally one pixel of another value
SinglesOfSize(w, h) ==
    {Image(w, h, [p \in Coords(w, h) |-> f]) : f \in PixelValues \ {OpaqueB}}
    \cup {Image(w, h, [p \in Coords(w, h) |-> IF p = o THEN v ELSE f]) :
             f \in {Transparent, OpaqueA}, v \in {OpaqueA, OpaqueB, SemiA},
             o \in Coords(w, h)}

SingleInputs == UNION {SinglesOfSize(w, h) : w \in 1 .. MaxSW, h \in 1 .. MaxSH}

Canvas(w, h, bg) == Image(w, h, [p \in Coords(w, h) |-> bg])

\* img with a copy of single written at offset (x, y), clipped to img
Paste(img, single, x, y) ==
    [img EXCEPT !.px = [p \in Coords(img.w, img.h) |->
        IF /\ p[1] - x \in 0 .. (single.w - 1)
           /\ p[2] - y \in 0 .. (single.h - 1)
        THEN single.px[<<p[1] - x, p[2] - y>>]
        ELSE img.px[p]]]

Other(v) == IF v = OpaqueA THEN OpaqueB ELSE OpaqueA

\* img with the pixel at c altered
Corrupt(img, c) == [img EXCEPT !.px[c] = Other(@)]

\* tilesets holding a copy of the single somewhere, possibly damaged
TilesetsFor(single) ==
    LET pasted == {Paste(Canvas(w, h, bg), single, o[1], o[2]) :
                      w \in 1 .. MaxTW, h \in 1 .. MaxTH,
                      bg \in {Transparent, OpaqueA},
                      o \in Coords(MaxTW, MaxTH)}
    IN pasted \cup UNION {{Corrupt(t, c) : c \in Coords(t.w, t.h)} : t \in pasted}

----------------------------------------------------------------------------
(* The matching engine as a state machine *)

VARIABLES tileset, single, threshold, tested, tiles, score, spc

svars == <<tileset, single, threshold, tested, tiles, score, spc>>

VARIABLES loader, tilesetIndex, singleIndex, pc, args, taskq, running,
          arrived, results, next, tileset_tiles, single_tilesets, found

dvars == <<loader, tilesetIndex, singleIndex, pc, args, taskq, running,
           arrived, results, next, tileset_tiles, single_tilesets, found>>

vars == <<svars, dvars>>

\* the dispatcher before load() has found any image
DispatchIdle ==
    /\ loader = "BaseLoader"
    /\ tilesetIndex = <<>>
    /\ singleIndex = <<>>
    /\ pc = "idle"
    /\ args = <<>>
    /\ taskq = <<>>
    /\ running = {}
    /\ arrived = <<>>
    /\ results = <<>>
    /\ next = 0
    /\ tileset_tiles = <<>>
    /\ single_tilesets = <<>>
    /\ found = 0

SearchInit ==
    /\ DispatchIdle
    /\ single \in SingleInputs
    /\ tileset \in TilesetsFor(single)
    /\ threshold = SIMILARITY
    /\ tested = <<>>
    /\ tiles = <<>>
    /\ score = <<0, 1>>
    /\ spc = "loaded"

\* tileset.search(single, threshold, TILE_SIZE), consumed to the end
DoSearch ==
    /\ spc = "loaded"
    /\ \E thr \in Thresholds :
         /\ threshold' = thr
         /\ tiles' = Search(tileset, single, thr, TILE_SIZE).tiles
    /\ tested' = Windows(tileset, single, TILE_SIZE)
    /\ spc' = "searched"
    /\ UNCHANGED <<tileset, single, score>>
    /\ UNCHANGED dvars

\* Tileset._compute_score(single.cv2, tileset.cv2) on two whole images
DoScore ==
    /\ spc = "loaded"
    /\ single.w = tileset.w /\ single.h = tileset.h
    /\ score' = debug_compute_score(single, tileset)
    /\ spc' = "scored"
    /\ UNCHANGED <<tileset, single, threshold, tested, tiles>>
    /\ UNCHANGED dvars

SearchNext == DoSearch \/ DoScore

SearchSpec == SearchInit /\ [][SearchNext]_vars

----------------------------------------------------------------------------
(* The dispatcher: BaseLoader.search and its process pool *)

\* scaled down from Pool(12) and the chunk size 32 of imap_unordered
PoolSize == 2
ChunkSize == 2
NumTilesets == 2
NumSingles == 2

\* ids come from one counter shared by all images
TilesetIds == 1 .. NumTilesets
SingleIds == (NumTilesets + 1) .. (NumTilesets + NumSingles)

Rgb(w, h, v) == [w |-> w, h |-> h, ch |-> 3, px |-> [p \in Coords(w, h) |-> v]]

\* loaded images: the decoded buffer, and the theme its path names (0: the
\* path is not under a theme sorter)
TilesetInputs ==
    {[theme |-> 1, img |-> Canvas(2 * TILE_SIZE, TILE_SIZE, OpaqueA)],
     [theme |-> 0, img |-> Paste(Canvas(2 * TILE_SIZE, TILE_SIZE, OpaqueA),
                                  Canvas(TILE_SIZE, TILE_SIZE, OpaqueB),
                                  TILE_SIZE, 0)],
     [theme |-> 2, img |-> Rgb(2 * TILE_SIZE, TILE_SIZE, <<10, 20, 30>>)]}

DispatchSingleInputs ==
    {[theme |-> 1, img |-> Canvas(TILE_SIZE, TILE_SIZE, OpaqueA)],
     [theme |-> 2, img |-> Canvas(TILE_SIZE, TILE_SIZE, OpaqueB)],
     [theme |-> 0, img |-> Canvas(TILE_SIZE, TILE_SIZE, Transparent)]}

Loaders == {"BaseLoader", "ModernInteriorsLoader"}


assoc == <<tileset_tiles, single_tilesets>>

\* the sequences that enumerate a set once each: the iteration orders of a
\* Python set
Orders(S) ==
    {f \in [1 .. Cardinality(S) -> S] :
        \A a, b \in 1 .. Cardinality(S) : a # b => f[a] # f[b]}

\* the filter of _get_search_pairs
ShouldTest(ldr, tileset_rec, single_rec) ==
    \/ ldr = "BaseLoader"
    \/ ~(tileset_rec.theme # 0 /\ single_rec.theme # 0)
    \/ single_rec.theme = tileset_rec.theme

RECURSIVE SelectSeq2(_, _, _)
SelectSeq2(seq, ldr, idx) ==
    IF seq = <<>> THEN <<>>
    ELSE LET pair == Head(seq)
             rest == SelectSeq2(Tail(seq), ldr, idx)
         IN IF ShouldTest(ldr, idx[1][pair[1]], idx[2][pair[2]])
            THEN <<pair>> \o rest ELSE rest

\* list(self._get_search_pairs()): tileset-major, in the sets' orders
SearchPairs(ldr, torder, sorder, idx) ==
    LET n == Len(sorder)
        all == [k \in 1 .. (Len(torder) * n) |->
                  <<torder[((k - 1) \div n) + 1], sorder[((k - 1) % n) + 1]>>]
    IN SelectSeq2(all, ldr, idx)

\* Pool._get_tasks: consecutive chunks of at most n tasks
RECURSIVE Chunks(_, _)
Chunks(seq, n) ==
    IF seq = <<>> THEN <<>>
    ELSE IF Len(seq) <= n THEN <<seq>>
    ELSE <<SubSeq(seq, 1, n)>> \o Chunks(SubSeq(seq, n + 1, Len(seq)), n)

\* a worker that swallows the failure of its search and reports no tile
SearchTaskSwallow(pair, idx) ==
    LET r == Search(idx[1][pair[1]].img, idx[2][pair[2]].img,
                    SIMILARITY, TILE_SIZE)
    IN [ok |-> TRUE, value |-> <<pair[1], pair[2], r.tiles>>]

\* BaseLoader._search((tileset, single))
SearchTask(pair, idx) ==
    LET r == Search(idx[1][pair[1]].img, idx[2][pair[2]].img,
                    SIMILARITY, TILE_SIZE)
    IN [ok |-> r.ok, value |-> <<pair[1], pair[2], r.tiles>>]

\* a worker's mapstar over one chunk: the first exception ends the chunk
MapStar(chunk, idx) ==
    IF \A k \in 1 .. Len(chunk) : SearchTask(chunk[k], idx).ok
    THEN [ok |-> TRUE,
          items |-> [k \in 1 .. Len(chunk) |-> SearchTask(chunk[k], idx).value]]
    ELSE [ok |-> FALSE, items |-> <<>>]

\* Single.add_tileset
add_tileset(tilesets, tileset_id) == tilesets \cup {tileset_id}

\* add_tile replacing the list of the single instead of appending to it
add_tile_overwrite(d, single_id, tile) ==
    (single_id :> <<tile>>) @@ d

\* add_tile keeping one list for the whole tileset, whatever the single
add_tile_shared(d, single_id, tile) ==
    IF 0 \in DOMAIN d
    THEN [d EXCEPT ![0] = Append(@, tile)]
    ELSE (0 :> <<tile>>) @@ d

\* Tileset.add_tile on the defaultdict(list)
add_tile(d, single_id, tile) ==
    IF single_id \in DOMAIN d
    THEN [d EXCEPT ![single_id] = Append(@, tile)]
    ELSE (single_id :> <<tile>>) @@ d

RECURSIVE AddTiles(_, _, _)
AddTiles(d, single_id, ts) ==
    IF ts = <<>> THEN d
    ELSE AddTiles(add_tile(d, single_id, Head(ts)), single_id, Tail(ts))

\* the body of the aggregation loop for one result
AggregateResult(st, res) ==
    IF res[3] = <<>> THEN st
    ELSE [tiles |-> [st.tiles EXCEPT ![res[1]] = AddTiles(@, res[2], res[3])],
          tilesets |-> [st.tilesets EXCEPT ![res[2]] = add_tileset(@, res[1])],
          found |-> st.found + Len(res[3])]

EmptyDict == [x \in {} |-> <<>>]

\* no engine call of its own is in progress beside the dispatcher's
SearchIdle ==
    /\ tileset = Canvas(1, 1, Transparent)
    /\ single = Canvas(1, 1, Transparent)
    /\ threshold = SIMILARITY
    /\ tested = <<>>
    /\ tiles = <<>>
    /\ score = <<0, 1>>
    /\ spc = "idle"

DispatchInit ==
    /\ SearchIdle
    /\ loader \in Loaders
    /\ tilesetIndex \in {f \in [TilesetIds -> TilesetInputs] :
          \A a, b \in TilesetIds : a # b => f[a].img # f[b].img}
    /\ singleIndex \in {f \in [SingleIds -> DispatchSingleInputs] :
          \A a, b \in SingleIds : a # b => f[a].img # f[b].img}
    /\ pc = "start"
    /\ args = <<>>
    /\ taskq = <<>>
    /\ running = {}
    /\ arrived = <<>>
    /\ results = <<>>
    /\ next = 0
    /\ tileset_tiles = [t \in TilesetIds |-> EmptyDict]
    /\ single_tilesets = [s \in SingleIds |-> {}]
    /\ found = 0

\* args = list(self._get_search_pairs()); the pool is created and
\* imap_unordered queues the chunks
StartSearch ==
    /\ pc = "start"
    /\ \E torder \in Orders(TilesetIds), sorder \in Orders(SingleIds) :
          /\ args' = SearchPairs(loader, torder, sorder,
                                 <<tilesetIndex, singleIndex>>)
          /\ taskq' = Chunks(args', ChunkSize)
    /\ pc' = "pool"
    /\ UNCHANGED <<loader, tilesetIndex, singleIndex, running, arrived,
                   results, next, tileset_tiles, single_tilesets, found>>
    /\ UNCHANGED svars

\* an idle worker process takes the next chunk
WorkerTake ==
    /\ pc = "pool"
    /\ taskq # <<>>
    /\ Cardinality(running) < PoolSize
    /\ running' = running \cup {Head(taskq)}
    /\ taskq' = Tail(taskq)
    /\ UNCHANGED <<loader, tilesetIndex, singleIndex, pc, args, arrived,
                   results, next, tileset_tiles, single_tilesets, found>>
    /\ UNCHANGED svars

\* a worker that writes its tiles into the shared associations itself
WorkerCompleteShared ==
    /\ pc = "pool"
    /\ \E chunk \in running :
          LET out == MapStar(chunk, <<tilesetIndex, singleIndex>>)
              st == IF out.ok
                    THEN AggregateResult([tiles |-> tileset_tiles,
                                          tilesets |-> single_tilesets,
                                          found |-> found], out.items[1])
                    ELSE [tiles |-> tileset_tiles,
                          tilesets |-> single_tilesets, found |-> found]
          IN /\ arrived' = Append(arrived, out)
             /\ running' = running \ {chunk}
             /\ tileset_tiles' = st.tiles
             /\ single_tilesets' = st.tilesets
    /\ UNCHANGED <<loader, tilesetIndex, singleIndex, pc, args, taskq,
                   results, next, found>>
    /\ UNCHANGED svars

\* a worker finishes its chunk and sends the outcome to the parent
WorkerComplete ==
    /\ pc = "pool"
    /\ \E chunk \in running :
          /\ arrived' = Append(arrived,
                                MapStar(chunk, <<tilesetIndex, singleIndex>>))
          /\ running' = running \ {chunk}
    /\ UNCHANGED <<loader, tilesetIndex, singleIndex, pc, args, taskq,
                   results, next, tileset_tiles, single_tilesets, found>>
    /\ UNCHANGED svars

\* a parent that aggregates each chunk as soon as it arrives
CollectEager ==
    /\ pc = "pool"
    /\ arrived # <<>>
    /\ Head(arrived).ok
    /\ results' = results \o Head(arrived).items
    /\ arrived' = Tail(arrived)
    /\ LET st == AggregateResult([tiles |-> tileset_tiles,
                                   tilesets |-> single_tilesets,
                                   found |-> found], Head(arrived).items[1])
       IN /\ tileset_tiles' = st.tiles
          /\ single_tilesets' = st.tilesets
    /\ UNCHANGED <<loader, tilesetIndex, singleIndex, pc, args, taskq,
                   running, next, found>>
    /\ UNCHANGED svars

\* list(tqdm(results)) takes the next successful chunk from the iterator
Collect ==
    /\ pc = "pool"
    /\ arrived # <<>>
    /\ Head(arrived).ok
    /\ results' = results \o Head(arrived).items
    /\ arrived' = Tail(arrived)
    /\ UNCHANGED <<loader, tilesetIndex, singleIndex, pc, args, taskq,
                   running, next, tileset_tiles, single_tilesets, found>>
    /\ UNCHANGED svars

\* the iterator re-raises a worker's exception: the with block terminates
\* the pool and search() propagates the exception
RaiseFailure ==
    /\ pc = "pool"
    /\ arrived # <<>>
    /\ ~Head(arrived).ok
    /\ pc' = "raised"
    /\ taskq' = <<>>
    /\ running' = {}
    /\ arrived' = <<>>
    /\ results' = <<>>
    /\ UNCHANGED <<loader, tilesetIndex, singleIndex, args, next,
                   tileset_tiles, single_tilesets, found>>
    /\ UNCHANGED svars

\* every result is in the list: the with block ends
ExitPool ==
    /\ pc = "pool"
    /\ Len(results) = Len(args)
    /\ pc' = "aggregate"
    /\ next' = 1
    /\ UNCHANGED <<loader, tilesetIndex, singleIndex, args, taskq, running,
                   arrived, results, tileset_tiles, single_tilesets, found>>
    /\ UNCHANGED svars

\* one iteration of the loop over results
Aggregate ==
    /\ pc = "aggregate"
    /\ next <= Len(results)
    /\ LET st == AggregateResult([tiles |-> tileset_tiles,
                                   tilesets |-> single_tilesets,
                                   found |-> found], results[next])
       IN /\ tileset_tiles' = st.tiles
          /\ single_tilesets' = st.tilesets
          /\ found' = st.found
    /\ next' = next + 1
    /\ UNCHANGED <<loader, tilesetIndex, singleIndex, pc, args, taskq,
                   running, arrived, results>>
    /\ UNCHANGED svars

\* the loop is over: search() prints the total and returns
Finish ==
    /\ pc = "aggregate"
    /\ next > Len(results)
    /\ pc' = "done"
    /\ UNCHANGED <<loader, tilesetIndex, singleIndex, args, taskq, running,
                   arrived, results, next, tileset_tiles, single_tilesets,
                   found>>
    /\ UNCHANGED svars

Next ==
    \/ StartSearch
    \/ WorkerTake
    \/ WorkerComplete
    \/ Collect
    \/ RaiseFailure
    \/ ExitPool
    \/ Aggregate
    \/ Finish

Spec == DispatchInit /\ [][Next]_vars

----------------------------------------------------------------------------
(* Properties of the matching engine, checked under SearchSpec *)

IsOne(q) == q[2] > 0 /\ q[1] = q[2]

SameRegions(tile, win) == tile[1] = win.t_region /\ tile[2] = win.s_region

\* C6: every emitted Tile comes from a window whose raw score is strictly
\* above the threshold, its confidence is (raw - threshold) / (1 - threshold)
\* and lies in (0, 1]; a window scoring exactly the threshold emits no Tile.
C6_Theorem ==
    spc = "searched" =>
      /\ \A k \in 1 .. Len(tiles) : \E m \in 1 .. Len(tested) :
            LET raw == tested[m].score
                conf == tiles[k][3]
            IN /\ SameRegions(tiles[k], tested[m])
               /\ raw[1] * threshold[2] > threshold[1] * raw[2]
               /\ conf[1] * raw[2] * (threshold[2] - threshold[1])
                     = conf[2] * (raw[1] * threshold[2] - threshold[1] * raw[2])
               /\ conf[2] > 0 /\ conf[1] > 0 /\ conf[1] <= conf[2]
      /\ \A m \in 1 .. Len(tested) :
            tested[m].score[1] * threshold[2] = threshold[1] * tested[m].score[2]
              => ~ \E k \in 1 .. Len(tiles) : SameRegions(tiles[k], tested[m])

C6_Witness ==
    /\ spc = "searched"
    /\ threshold[1] > 0
    /\ \E m \in 1 .. Len(tested) :
          /\ tested[m].score[1] > 0
          /\ tested[m].score[1] * threshold[2] = threshold[1] * tested[m].score[2]
    /\ \E k \in 1 .. Len(tiles) : tiles[k][3][1] < tiles[k][3][2]

\* C7: the tileset-side and the single-side region of every tested window
\* have the same width and the same height, and so have the two slices.
C7_Theorem ==
    spc = "searched" =>
      \A m \in 1 .. Len(tested) :
        LET win == tested[m] IN
          /\ win.t.w = win.s.w /\ win.t.h = win.s.h
          /\ win.t_region[3] = win.s_region[3]
          /\ win.t_region[4] = win.s_region[4]
          /\ win.t_region[3] = win.t.w /\ win.t_region[4] = win.t.h
          /\ win.t.w > 0 /\ win.t.h > 0

C7_Witness ==
    /\ spc = "searched"
    /\ single.w > tileset.w
    /\ single.h < TILE_SIZE
    /\ \E m \in 1 .. Len(tested) :
          tested[m].s.w < single.w /\ tested[m].s_region[1] > 0

\* the single lies byte for byte in the tileset at offset (x, y)
CopyAt(x, y) ==
    /\ x + single.w <= tileset.w
    /\ y + single.h <= tileset.h
    /\ \A p \in Coords(single.w, single.h) :
          tileset.px[<<x + p[1], y + p[2]>>] = single.px[p]

\* C8: a single with an opaque pixel that lies byte for byte inside the
\* tileset at an offset whose coordinates are multiples of the stride is
\* found there with confidence 1.0, whatever the single's width and height.
C8_Claim ==
    (spc = "searched" /\ threshold = SIMILARITY /\ CountOpaque(single) > 0) =>
      \A o \in Coords(tileset.w, tileset.h) :
        (o[1] % TILE_SIZE = 0 /\ o[2] % TILE_SIZE = 0 /\ CopyAt(o[1], o[2]))
          => \E k \in 1 .. Len(tiles) :
               tiles[k] = <<<<o[1], o[2], single.w, single.h>>,
                            <<0, 0, single.w, single.h>>, <<1, 1>>>>

\* C9: a single without any opaque pixel scores exactly 0.0 against every
\* window, without a division fault, and Match Search returns no Tile.
C9_Theorem ==
    CountOpaque(single) = 0 =>
      /\ spc = "searched" =>
            /\ tiles = <<>>
            /\ \A m \in 1 .. Len(tested) : tested[m].score = <<0, 1>>
      /\ spc = "scored" => score = <<0, 1>>

C9_Witness ==
    /\ spc = "searched"
    /\ CountOpaque(single) = 0
    /\ threshold = <<0, 1>>
    /\ \E m \in 1 .. Len(tested) : tested[m].t.px = tested[m].s.px
    /\ \E p \in Coords(single.w, single.h) : single.px[p] = SemiA

Identical(win) == win.t.w = win.s.w /\ win.t.h = win.s.h /\ win.t.px = win.s.px

\* C10 as stated: every window that is byte-identical on both sides scores
\* exactly 1.0, also without opaque pixels and when clipped.
C10_Original ==
    /\ spc = "searched" =>
          \A m \in 1 .. Len(tested) :
            Identical(tested[m]) => IsOne(tested[m].score)
    /\ (spc = "scored" /\ single = tileset) => IsOne(score)

\* C10 amended: a byte-identical window scores (opaque pixels of the
\* window) / (opaque pixels of the entire single), hence exactly 1.0 if and
\* only if the single has an opaque pixel and all its opaque pixels lie in
\* the window; it scores 0.0 when the single has no opaque pixel.
C10_Theorem ==
    /\ spc = "searched" =>
          \A m \in 1 .. Len(tested) :
            Identical(tested[m]) =>
              /\ IsOne(tested[m].score) <=>
                    /\ CountOpaque(single) > 0
                    /\ CountOpaque(tested[m].s) = CountOpaque(single)
              /\ tested[m].score[1] * Max(1, CountOpaque(single))
                    = tested[m].score[2] * CountOpaque(tested[m].s)
    /\ (spc = "scored" /\ single = tileset) =>
          (IsOne(score) <=> CountOpaque(single) > 0)

C10_Witness ==
    /\ spc = "searched"
    /\ \E m \in 1 .. Len(tested) :
          /\ Identical(tested[m])
          /\ tested[m].s.w < single.w
          /\ CountOpaque(tested[m].s) > 0
          /\ ~IsOne(tested[m].score)

----------------------------------------------------------------------------
(* Properties of the dispatcher, checked under Spec *)

\* what Match Search returns for the pair of tileset t and single s
Expected(t, s) ==
    Search(tilesetIndex[t].img, singleIndex[s].img, SIMILARITY, TILE_SIZE)

IsCandidate(t, s) == \E k \in 1 .. Len(args) : args[k] = <<t, s>>

\* C1: when a run that started without associations completes, each
\* tileset's list for a single is exactly what Match Search returned for
\* that candidate pair, there is no entry for a pair that was not searched or
\* matched nothing, and the single names the tileset exactly when the list
\* exists.
C1_Theorem ==
    pc = "done" =>
      \A t \in TilesetIds :
        /\ DOMAIN tileset_tiles[t] \subseteq SingleIds
        /\ \A s \in SingleIds :
              IF IsCandidate(t, s) /\ Expected(t, s).tiles # <<>>
              THEN /\ s \in DOMAIN tileset_tiles[t]
                   /\ tileset_tiles[t][s] = Expected(t, s).tiles
                   /\ t \in single_tilesets[s]
              ELSE /\ s \notin DOMAIN tileset_tiles[t]
                   /\ t \notin single_tilesets[s]

C1_Witness ==
    /\ pc = "done"
    /\ Len(args) < NumTilesets * NumSingles
    /\ \E t \in TilesetIds : Cardinality(DOMAIN tileset_tiles[t]) >= 2
    /\ \E t \in TilesetIds : \E s \in DOMAIN tileset_tiles[t] :
          Len(tileset_tiles[t][s]) >= 2

RECURSIVE FoldResults(_, _)
FoldResults(st, seq) ==
    IF seq = <<>> THEN st
    ELSE FoldResults(AggregateResult(st, Head(seq)), Tail(seq))

\* the candidate pairs in ascending order of their ids
CanonicalPairs ==
    SearchPairs(loader, [k \in 1 .. NumTilesets |-> k],
                [k \in 1 .. NumSingles |-> NumTilesets + k],
                <<tilesetIndex, singleIndex>>)

\* the associations obtained by merging the pairs one by one in ascending
\* order
CanonicalState ==
    FoldResults([tiles |-> [t \in TilesetIds |-> EmptyDict],
                 tilesets |-> [s \in SingleIds |-> {}],
                 found |-> 0],
                [k \in 1 .. Len(CanonicalPairs) |->
                   <<CanonicalPairs[k][1], CanonicalPairs[k][2],
                     Expected(CanonicalPairs[k][1],
                              CanonicalPairs[k][2]).tiles>>])

Before(p, q) == p[1] < q[1] \/ (p[1] = q[1] /\ p[2] < q[2])

\* C2: whatever the order in which the pairs were listed, executed and
\* collected, the completed run leaves the same association state as
\* merging the pairs one by one in a fixed order.
C2_Theorem ==
    pc = "done" =>
      /\ tileset_tiles = CanonicalState.tiles
      /\ single_tilesets = CanonicalState.tilesets
      /\ found = CanonicalState.found

C2_Witness ==
    /\ pc = "done"
    /\ \E k, m \in 1 .. Len(results) :
          /\ k < m
          /\ Before(results[m], results[k])
          /\ results[k][3] # <<>> /\ results[m][3] # <<>>
          /\ results[k][1] = results[m][1]
    /\ found >= 3

AllCollected ==
    /\ taskq = <<>>
    /\ running = {}
    /\ arrived = <<>>
    /\ Len(results) = Len(args)

\* C3: the associations change only when no pair is pending, running or
\* uncollected, and a completed run has searched and aggregated every
\* candidate pair.
C3_Theorem ==
    /\ [][assoc' # assoc => (AllCollected /\ pc = "aggregate")]_vars
    /\ [](pc = "done" =>
            /\ next = Len(args) + 1
            /\ Len(results) = Len(args)
            /\ \A k \in 1 .. Len(args) : \E m \in 1 .. Len(results) :
                  <<results[m][1], results[m][2]>> = args[k])

C3_Witness ==
    /\ pc = "aggregate"
    /\ next = 2
    /\ found > 0
    /\ Len(args) > ChunkSize

Fails(pair) == ~Expected(pair[1], pair[2]).ok

\* C4: a run with a candidate pair whose search fails never reaches the
\* aggregation nor completes normally; its pool cannot drain without the
\* failure being raised, and once raised the pool is terminated, nothing
\* has been aggregated and nothing is aggregated afterwards.
C4_Theorem ==
    /\ [](pc \in {"aggregate", "done"} =>
             \A k \in 1 .. Len(args) : ~Fails(args[k]))
    /\ []((pc = "pool" /\ taskq = <<>> /\ running = {} /\ arrived = <<>>) =>
             /\ Len(results) = Len(args)
             /\ \A k \in 1 .. Len(args) : ~Fails(args[k]))
    /\ [](pc = "raised" =>
             /\ \E k \in 1 .. Len(args) : Fails(args[k])
             /\ taskq = <<>> /\ running = {} /\ arrived = <<>>
             /\ tileset_tiles = [t \in TilesetIds |-> EmptyDict]
             /\ single_tilesets = [s \in SingleIds |-> {}])
    /\ [][pc = "raised" => vars' = vars]_vars

C4_Witness ==
    /\ pc = "raised"
    /\ Len(args) > ChunkSize
    /\ \E k \in 1 .. Len(args) :
          ~Fails(args[k]) /\ Expected(args[k][1], args[k][2]).tiles # <<>>

\* C5: a worker's step leaves the images and the associations unchanged;
\* the associations change only in a step of the aggregation loop, which
\* handles one result and touches only that result's tileset and single.
C5_Theorem ==
    [][/\ tilesetIndex' = tilesetIndex
       /\ singleIndex' = singleIndex
       /\ (running' # running \/ arrived' # arrived) => assoc' = assoc
       /\ assoc' # assoc =>
            /\ pc = "aggregate"
            /\ running = {}
            /\ next' = next + 1
            /\ \A t \in TilesetIds \ {results[next][1]} :
                  tileset_tiles'[t] = tileset_tiles[t]
            /\ \A s \in SingleIds \ {results[next][2]} :
                  single_tilesets'[s] = single_tilesets[s]
            /\ \A s \in DOMAIN tileset_tiles[results[next][1]] :
                  s # results[next][2] =>
                    tileset_tiles'[results[next][1]][s]
                      = tileset_tiles[results[next][1]][s]]_vars

C5_Witness ==
    /\ pc = "aggregate"
    /\ next > 2
    /\ found >= 2
    /\ Len(args) > ChunkSize
    /\ \E t \in TilesetIds : Cardinality(DOMAIN tileset_tiles[t]) >= 2

====
